---- MODULE Spec2Model ----
(***************************************************************************)
(* Model of the request dispatcher (src/src/frontend/app.py:                *)
(* make_api_request, check_api_connection, main) and of the mock API        *)
(* (src/src/frontend/mock_api.py: MockAPI, make_mock_request).              *)
(*                                                                          *)
(* Representation:                                                          *)
(*  - an endpoint string is kept as the sequence endpoint.split("/")        *)
(*    produces, so "/profiles/" is <<"", "profiles", "">>; Join gives the   *)
(*    string back;                                                          *)
(*  - a JSON document is [kind |-> "dict" | "list", val |-> ...];           *)
(*  - an Optional[Dict] argument is [isNone, has, v]: has is the set of     *)
(*    keys present, v holds their values (a filler for an absent key);      *)
(*  - random draws (uuid4, random.uniform) are nondeterministic choices     *)
(*    from small pools.                                                     *)
(***************************************************************************)
EXTENDS Integers, Sequences, FiniteSets, TLC

(***************************************************************************)
(* Bounds                                                                   *)
(***************************************************************************)
\* profiles that may be created on top of the seed profiles
MaxCreated == 1

(***************************************************************************)
(* Program constants                                                        *)
(***************************************************************************)
NumSeedProfiles == 5
NumSeedGroups == 3
DefaultLimit == 10

(***************************************************************************)
(* Python values                                                            *)
(***************************************************************************)
Dict(v) == [kind |-> "dict", val |-> v]
List(v) == [kind |-> "list", val |-> v]

\* an exception leaves the function instead of a document
Raise(exception) == [kind |-> "raise", val |-> [exception |-> exception]]

\* the argument is a dict (or None); a list argument carries isList
IsMapping(d) == "isList" \notin DOMAIN d

\* d.get(k, default)
Get(d, k, default) == IF k \in d.has THEN d.v[k] ELSE default

\* `x or {}` / `if x`: a None or empty dict is falsy
Truthy(d) == ~d.isNone /\ d.has # {}

\* seq[:n]
PySlice(seq, n) ==
  LET len == Len(seq)
      stop == IF n < 0 THEN (IF len + n < 0 THEN 0 ELSE len + n)
              ELSE (IF n > len THEN len ELSE n)
  IN SubSeq(seq, 1, stop)

\* "/".join(endpoint.split("/")), i.e. the endpoint string itself
RECURSIVE Join(_)
Join(segs) ==
  IF Len(segs) = 0 THEN ""
  ELSE IF Len(segs) = 1 THEN segs[1]
  ELSE segs[1] \o "/" \o Join(Tail(segs))

\* endpoint.startswith(prefix) where prefix ends in "/": the leading
\* segments are exactly those of the prefix and one more segment follows
StartsWith(endpoint, prefix) ==
  /\ Len(endpoint) >= Len(prefix)
  /\ \A i \in 1..(Len(prefix) - 1) : endpoint[i] = prefix[i]

\* "matches" in endpoint (no segment of the modelled endpoints contains
\* "matches" as a proper substring)
ContainsMatches(endpoint) == \E i \in 1..Len(endpoint) : endpoint[i] = "matches"

(***************************************************************************)
(* MockAPI: seed data                                                       *)
(***************************************************************************)
SeedId(i) == "profile_" \o ToString(i)

\* The randomly drawn attributes of a seed profile are read by no
\* operation; one draw of random.sample / random.choice stands for all.
SeedProfile(i) ==
  [id |-> SeedId(i),
   name |-> "Demo User " \o ToString(i),
   description |-> "This is a demo profile #" \o ToString(i) \o " for testing purposes.",
   preferences |-> {<<"interests", "AI,blockchain,privacy">>,
                    <<"location", "Remote">>,
                    <<"availability", "Full-time">>},
   tags |-> <<"developer", "researcher">>]

SeedProfiles == [i \in 1..NumSeedProfiles |-> SeedProfile(i)]

\* members is random.sample(ids, random.randint(1, 3)): draws[i] is the
\* sample drawn for group i
SeedGroup(i, members) ==
  [id |-> "group_" \o ToString(i),
   name |-> "Demo Group " \o ToString(i),
   description |-> "This is a demo group #" \o ToString(i) \o " for testing purposes.",
   preferences |-> {<<"focus", "research">>, <<"meeting_frequency", "weekly">>},
   members |-> members,
   tags |-> <<"tech", "science", "ai">>]

SeedGroups(draws) == [i \in 1..NumSeedGroups |-> SeedGroup(i, draws[i])]

\* variant: the ids are drawn with replacement
MemberSamples_WithReplacement ==
  UNION {[1..n -> {SeedId(i) : i \in 1..NumSeedProfiles}] : n \in 1..3}

\* the samples random.sample can return: 1 to 3 distinct seed ids, ordered
MemberSamples ==
  {m \in UNION {[1..n -> {SeedId(i) : i \in 1..NumSeedProfiles}] : n \in 1..3} :
     \A a, b \in 1..Len(m) : a # b => m[a] # m[b]}

(***************************************************************************)
(* MockAPI: operations.  Each returns the set of possible outcomes          *)
(* [result, profiles]: the document returned and the profile list after.    *)
(***************************************************************************)
\* uuid.uuid4().hex[:8] for a new profile id
NewIdPool == {"profile_0000000a", "profile_0000000b"}
\* uuid.uuid4().hex[:8] / hex[:16] for key tokens
KeyPool == {"1a2b3c4d", "5e6f7a8b"}
\* random.random(), in hundredths: the least draw, and a draw so close to 1
\* that a + (b - a) * random() rounds to b
RandomDraws == {0, 100}

\* variant: the lower end of the range is dropped
uniform_FromZero(a, b, u) == ((b - a) * u) \div 100

\* random.uniform(a, b) is a + (b - a) * random.random(); all in hundredths
uniform(a, b, u) == a + ((b - a) * u) \div 100

\* the scores random.uniform(0.5, 1.0) can give, in hundredths
ScoreValues == {uniform(50, 100, u) : u \in RandomDraws}

health == Dict([status |-> "healthy", mode |-> "mock"])

generate_key_pair ==
  {Dict([public_key |-> "mock_public_key_" \o a,
         private_key |-> "mock_private_key_" \o b \o b]) : a \in KeyPool, b \in KeyPool}

\* variant: the newest profile is listed first
get_profiles_Reversed(profiles) ==
  List([i \in 1..Len(profiles) |-> profiles[Len(profiles) + 1 - i]])

get_profiles(profiles) == List(profiles)

\* variant: the loop variable is returned when the loop finds nothing
get_profile_ReturnsLast(profiles, profile_id) ==
  IF \E i \in 1..Len(profiles) : profiles[i].id = profile_id
  THEN LET first == CHOOSE i \in 1..Len(profiles) :
                      /\ profiles[i].id = profile_id
                      /\ \A j \in 1..(i - 1) : profiles[j].id # profile_id
       IN Dict(profiles[first])
  ELSE Dict(profiles[Len(profiles)])

get_profile(profiles, profile_id) ==
  IF \E i \in 1..Len(profiles) : profiles[i].id = profile_id
  THEN LET first == CHOOSE i \in 1..Len(profiles) :
                      /\ profiles[i].id = profile_id
                      /\ \A j \in 1..(i - 1) : profiles[j].id # profile_id
       IN Dict(profiles[first])
  ELSE Dict([error |-> "Profile not found"])

NewProfile(profile_id, data) ==
  [id |-> profile_id,
   name |-> Get(data, "name", "User " \o profile_id),
   description |-> Get(data, "description", "No description provided."),
   preferences |-> Get(data, "preferences", {}),
   tags |-> Get(data, "tags", <<>>)]

\* variant: the new profile takes the place of the last one
create_profile_ReplacesLast(profiles, data) ==
  {[result |-> Dict([profile_id |-> pid]),
    profiles |-> Append(SubSeq(profiles, 1, Len(profiles) - 1), NewProfile(pid, data))] :
     pid \in NewIdPool}

\* data.get of a list is an AttributeError, raised before the append
create_profile(profiles, data) ==
  IF ~IsMapping(data)
    THEN {[result |-> Raise("AttributeError"), profiles |-> profiles]}
  ELSE {[result |-> Dict([profile_id |-> pid]),
         profiles |-> Append(profiles, NewProfile(pid, data))] : pid \in NewIdPool}

get_groups(groups) == List(groups)

\* matches.sort(key=score, reverse=True): stable, equal scores keep order
RECURSIVE SortDesc(_)
\* variant: the list is left in the order the scores were drawn
InsertDesc_Unsorted(sorted, m) == Append(sorted, m)

\* variant: an entry goes in front of the entries of equal score
InsertDesc_BeforeEqual(sorted, m) ==
  LET pos == IF \E i \in 1..Len(sorted) : sorted[i].score <= m.score
             THEN CHOOSE i \in 1..Len(sorted) :
                    /\ sorted[i].score <= m.score
                    /\ \A j \in 1..(i - 1) : sorted[j].score > m.score
             ELSE Len(sorted) + 1
  IN SubSeq(sorted, 1, pos - 1) \o <<m>> \o SubSeq(sorted, pos, Len(sorted))

\* sorted is in descending order; m goes behind the entries of equal score

InsertDesc(sorted, m) ==
  LET pos == IF \E i \in 1..Len(sorted) : sorted[i].score < m.score
             THEN CHOOSE i \in 1..Len(sorted) :
                    /\ sorted[i].score < m.score
                    /\ \A j \in 1..(i - 1) : sorted[j].score >= m.score
             ELSE Len(sorted) + 1
  IN SubSeq(sorted, 1, pos - 1) \o <<m>> \o SubSeq(sorted, pos, Len(sorted))

SortDesc(matches) ==
  IF Len(matches) = 0 THEN <<>>
  ELSE InsertDesc(SortDesc(SubSeq(matches, 1, Len(matches) - 1)),
                  matches[Len(matches)])

OtherProfiles(profiles, profile_id) ==
  SelectSeq(profiles, LAMBDA p : p.id # profile_id)

\* variant: the query is not read
MatchLimit_IgnoresQuery(params) == DefaultLimit

MatchLimit(params) ==
  IF Truthy(params) THEN Get(params, "limit", DefaultLimit) ELSE DefaultLimit

get_matches(profiles, profile_id, params) ==
  LET other_profiles == OtherProfiles(profiles, profile_id)
      n == Len(other_profiles)
  IN {List(PySlice(SortDesc([i \in 1..n |->
                               [profile |-> other_profiles[i], score |-> scores[i]]]),
                   MatchLimit(params))) :
        scores \in [1..n -> ScoreValues]}

\* variant: the message leaves the method out
NotImplemented_NoMethod(endpoint, method) ==
  Dict([error |-> "Endpoint " \o Join(endpoint) \o " not implemented in mock API"])

NotImplemented(endpoint, method) ==
  Dict([error |-> "Endpoint " \o Join(endpoint) \o " with method " \o method
                  \o " not implemented in mock API"])

Same(profiles, results) == {[result |-> r, profiles |-> profiles] : r \in results}

handle_request(profiles, groups, endpoint, method, data, params) ==
  IF endpoint = <<"", "health">> /\ method = "GET"
    THEN Same(profiles, {health})
  ELSE IF endpoint = <<"", "encryption", "generate-key-pair">> /\ method = "POST"
    THEN Same(profiles, generate_key_pair)
  ELSE IF endpoint = <<"", "profiles", "">> /\ method = "GET"
    THEN Same(profiles, {get_profiles(profiles)})
  ELSE IF StartsWith(endpoint, <<"", "profiles", "">>) /\ method = "GET"
    THEN Same(profiles, {get_profile(profiles, endpoint[3])})
  ELSE IF endpoint = <<"", "profiles", "">> /\ method = "POST"
    THEN create_profile(profiles, IF Truthy(data) THEN data
                                  ELSE [data EXCEPT !.isNone = FALSE, !.has = {}])
  ELSE IF endpoint = <<"", "groups", "">> /\ method = "GET"
    THEN Same(profiles, {get_groups(groups)})
  ELSE IF /\ StartsWith(endpoint, <<"", "matching", "profile", "">>)
          /\ ContainsMatches(endpoint)
          /\ method = "GET"
    THEN Same(profiles, get_matches(profiles, endpoint[3], params))
  ELSE Same(profiles, {NotImplemented(endpoint, method)})

make_mock_request(profiles, groups, endpoint, method, data, params) ==
  handle_request(profiles, groups, endpoint, method, data, params)

(***************************************************************************)
(* Inputs                                                                   *)
(***************************************************************************)
Sessions == {"s1", "s2"}

Methods == {"GET", "POST", "PUT", "DELETE", "PATCH"}

Endpoints ==
  {<<"", "health">>,
   <<"", "encryption", "generate-key-pair">>,
   <<"", "profiles", "">>,
   <<"", "profiles", "profile_1">>,
   <<"", "profiles", "profile_0000000a">>,
   <<"", "groups", "">>,
   <<"", "groups", "group_1">>,
   <<"", "matching", "profile", "profile_1", "matches">>}

DataFiller == [name |-> "", description |-> "", preferences |-> {}, tags |-> <<>>]
NoData == [isNone |-> TRUE, has |-> {}, v |-> DataFiller]
EmptyData == [isNone |-> FALSE, has |-> {}, v |-> DataFiller]
NameOnlyData ==
  [isNone |-> FALSE, has |-> {"name"}, v |-> [DataFiller EXCEPT !.name = "Alice"]]
FullData ==
  [isNone |-> FALSE,
   has |-> {"name", "description", "preferences", "tags"},
   v |-> [name |-> "Bob", description |-> "Likes chess",
          preferences |-> {<<"location", "London">>}, tags |-> <<"mentor">>]]

\* a body that is a non-empty JSON array, as the import page passes on when
\* the uploaded file holds one
ListData == [isNone |-> FALSE, isList |-> TRUE, has |-> {"0"}, v |-> DataFiller]

NoParams == [isNone |-> TRUE, has |-> {}, v |-> [limit |-> 0]]
LimitParams(n) == [isNone |-> FALSE, has |-> {"limit"}, v |-> [limit |-> n]]

DataFor(endpoint, method) ==
  IF method = "POST" /\ endpoint = <<"", "profiles", "">> THEN {NoData, FullData}
  ELSE IF method = "PUT" THEN {FullData}
  ELSE {NoData}

ParamsFor(endpoint, method) ==
  IF method = "GET" /\ ContainsMatches(endpoint) THEN {LimitParams(2)}
  ELSE {NoParams}

Requests ==
  {[endpoint |-> e, method |-> m, data |-> d, params |-> p] :
     e \in Endpoints, m \in Methods,
     d \in {NoData, EmptyData, NameOnlyData, FullData},
     p \in {NoParams, LimitParams(2)}}

\* the calls the pages issue: a body with POST and PUT, a query with the
\* match query, and PUT, DELETE and PATCH on one profile
CallerRequests ==
  {r \in Requests :
     /\ r.data \in DataFor(r.endpoint, r.method)
     /\ r.params \in ParamsFor(r.endpoint, r.method)
     /\ r.method \in {"PUT", "DELETE", "PATCH"} => r.endpoint = <<"", "profiles", "profile_1">>}

\* what the Backend Client can do with one request
BackendOutcomes ==
  {"success", "http_error", "connection_error", "timeout", "invalid_json",
   "other_exception"}

\* documents a reachable backend answers with: on success, and as the
\* error document of a non-success status
BackendDocs == {Dict([detail |-> "from backend"]), List(<<>>)}
BackendErrorDocs == {Dict([error |-> "Profile not found on backend"])}

\* the exception response.json() raises on a body that is not JSON depends
\* on the installed requests release
JsonErrorClasses ==
  {"requests.exceptions.JSONDecodeError", "json.JSONDecodeError",
   "simplejson.JSONDecodeError"}

\* result of GET /health in check_api_connection
ProbeOutcomes == {"status_200", "status_other", "exception"}

(***************************************************************************)
(* Dispatcher: decisions of make_api_request, check_api_connection, main    *)
(***************************************************************************)
SupportedMethods == {"GET", "POST", "PUT", "DELETE"}

\* variant: the method is looked at before the flag
Route_MethodFirst(flag, method) ==
  IF method \in SupportedMethods THEN "backend"
  ELSE IF flag THEN "mock"
  ELSE "unsupported"

\* where a call goes first
Route(flag, method) ==
  IF flag THEN "mock"
  ELSE IF method \in SupportedMethods THEN "backend"
  ELSE "unsupported"

UnsupportedMethod(method) == Dict([error |-> "Unsupported method: " \o method])

\* variant: the try block has no final "except Exception" clause
ExceptHandler_NoCatchAll(outcome, jsonErrorClass) ==
  CASE outcome = "success" -> "none"
    [] outcome \in {"http_error", "connection_error", "timeout"} -> "RequestException"
    [] outcome = "invalid_json" ->
         (CASE jsonErrorClass = "requests.exceptions.JSONDecodeError" -> "RequestException"
            [] jsonErrorClass = "json.JSONDecodeError" -> "JSONDecodeError"
            [] OTHER -> "uncaught")
    [] OTHER -> "uncaught"

\* the except clause that catches the outcome of the try block; clauses are
\* tried in source order, and Timeout is a RequestException; "uncaught" would
\* be an exception that no clause matches
ExceptHandler(outcome, jsonErrorClass) ==
  CASE outcome = "success" -> "none"
    [] outcome \in {"http_error", "connection_error", "timeout"} -> "RequestException"
    [] outcome = "invalid_json" ->
         (CASE jsonErrorClass = "requests.exceptions.JSONDecodeError" -> "RequestException"
            [] jsonErrorClass = "json.JSONDecodeError" -> "JSONDecodeError"
            [] OTHER -> "Exception")
    [] OTHER -> "Exception"

\* the handler hands the call to the mock API
FallsBack(handler, flag) == handler = "RequestException" /\ ~flag

\* variant: the flag is set on every return of the try block
FlagAfterHandler_SetAlways(handler, flag) == TRUE

\* the flag after the handler has run
FlagAfterHandler(handler, flag) == IF FallsBack(handler, flag) THEN TRUE ELSE flag

\* variant: the method is not passed on, so the default "GET" is used
Forwarded_DefaultMethod(request) == [request EXCEPT !.method = "GET"]

\* the arguments the handler passes to make_mock_request
Forwarded(request) == request

\* the document returned when the handler does not fall back
HandlerError(handler) ==
  CASE handler = "RequestException" -> Dict([error |-> "str(e)"])
    [] handler = "JSONDecodeError" ->
         Dict([error |-> "Invalid response from API. Please try again later."])
    [] OTHER -> Dict([error |-> "An unexpected error occurred: str(e)"])

check_api_connection(probe) == probe = "status_200"

\* variant: the flag follows the probe
FlagAfterProbe_FollowsProbe(api_connected, flag) == ~api_connected

FlagAfterProbe(api_connected, flag) ==
  IF ~api_connected /\ ~flag THEN TRUE ELSE flag

\* variant: the button only switches demo mode on
ToggleFlag_OnlyOn(flag) == TRUE

ToggleFlag(flag) == ~flag

(***************************************************************************)
(* State                                                                    *)
(***************************************************************************)
VARIABLES
  USE_MOCK_API,    \* the module-level flag of app.py: TRUE is SIMULATED
  jsonErrorClass,  \* class of the exception response.json() raises
  profiles,        \* mock_api.profiles
  groups,          \* mock_api.groups
  pc,              \* per session: position of the script run (main)
  call,            \* per session: the current or last make_api_request call
                   \* of the script run
  tfSeen,          \* a connection error, timeout or undecodable body has
                   \* hit a call since the last toggle
  manual,          \* the flag holds the value the last toggle gave it
  lastOp           \* the step taken last

vars ==
  <<USE_MOCK_API, jsonErrorClass, profiles, groups, pc, call, tfSeen, manual, lastOp>>

NoDoc == [kind |-> "none", val |-> {}]

\* the body of the backend's response, when it has a decodable one
ResponseDocs(outcome) ==
  CASE outcome = "success" -> BackendDocs
    [] outcome = "http_error" -> BackendErrorDocs
    [] OTHER -> {NoDoc}

NoCall ==
  [phase |-> "none",
   request |-> [endpoint |-> <<>>, method |-> "", data |-> NoData, params |-> NoParams],
   modeBefore |-> FALSE, modeAfter |-> FALSE,
   backend |-> 0, outcome |-> "none", handler |-> "none", response |-> NoDoc,
   engine |-> <<>>, advisory |-> 0, result |-> NoDoc]

SameDoc(a, b) == a.kind = b.kind /\ a.val = b.val

\* one sample per group; the dispatcher never reads the groups
DispatcherDraws ==
  {<< <<"profile_1">>, <<"profile_2", "profile_4">>,
      <<"profile_5", "profile_3", "profile_1">> >>}

\* construction of the engine, os.getenv("USE_MOCK_API"), one session
Init ==
  /\ USE_MOCK_API \in BOOLEAN
  /\ jsonErrorClass \in JsonErrorClasses
  /\ profiles = SeedProfiles
  /\ \E draws \in DispatcherDraws : groups = SeedGroups(draws)
  /\ pc = [s \in Sessions |-> IF s = "s1" THEN "start" ELSE "off"]
  /\ call = [s \in Sessions |-> NoCall]
  /\ tfSeen = FALSE
  /\ manual = FALSE
  /\ lastOp = [session |-> "s1", op |-> "init", arg |-> ""]

(***************************************************************************)
(* main: a script run probes the backend, then either the toggle button     *)
(* was pressed (and the script reruns) or the page issues its calls         *)
(***************************************************************************)
Probe(s) ==
  /\ pc[s] = "start"
  /\ \E probe \in ProbeOutcomes :
       /\ USE_MOCK_API' = FlagAfterProbe(check_api_connection(probe), USE_MOCK_API)
       /\ lastOp' = [session |-> s, op |-> "probe", arg |-> probe]
  /\ pc' = [pc EXCEPT ![s] = "sidebar"]
  /\ manual' = (manual /\ USE_MOCK_API' = USE_MOCK_API)
  /\ UNCHANGED <<jsonErrorClass, profiles, groups, call, tfSeen>>

Toggle(s) ==
  /\ pc[s] = "sidebar"
  /\ USE_MOCK_API' = ToggleFlag(USE_MOCK_API)
  /\ pc' = [pc EXCEPT ![s] = "start"]
  /\ call' = [call EXCEPT ![s] = NoCall]
  /\ tfSeen' = FALSE
  /\ manual' = TRUE
  /\ lastOp' = [session |-> s, op |-> "toggle", arg |-> ""]
  /\ UNCHANGED <<jsonErrorClass, profiles, groups>>

\* the script run ends (or st.experimental_rerun() is called); the next
\* interaction starts a new run
EndRun(s) ==
  /\ pc[s] \in {"sidebar", "page"}
  /\ pc' = [pc EXCEPT ![s] = "start"]
  /\ call' = [call EXCEPT ![s] = NoCall]
  /\ lastOp' = [session |-> s, op |-> "end", arg |-> ""]
  /\ UNCHANGED <<USE_MOCK_API, jsonErrorClass, profiles, groups, tfSeen, manual>>

(***************************************************************************)
(* make_api_request                                                         *)
(***************************************************************************)
CreateAllowed(r) ==
  (r.endpoint = <<"", "profiles", "">> /\ r.method = "POST")
    => Len(profiles) < NumSeedProfiles + MaxCreated

\* one call of make_mock_request: the engine's answer and its new store; an
\* exception of the engine is caught nowhere in make_api_request
Engine(s, c, r, out) ==
  /\ profiles' = out.profiles
  /\ call' = [call EXCEPT ![s] =
       [c EXCEPT !.phase = IF out.result.kind = "raise" THEN "raised" ELSE "done",
                 !.engine = Append(c.engine, [request |-> r, result |-> out.result]),
                 !.result = out.result,
                 !.modeAfter = USE_MOCK_API']]

\* entry of make_api_request up to the backend request being sent, for a
\* page that issues one of the given requests
BeginWith(s, requests) ==
  /\ pc[s] \in {"sidebar", "page"}
  /\ \E r \in requests :
       LET c == [NoCall EXCEPT !.request = r, !.modeBefore = USE_MOCK_API]
           route == Route(USE_MOCK_API, r.method)
       IN
       /\ CreateAllowed(r)
       /\ USE_MOCK_API' = USE_MOCK_API
       /\ CASE route = "mock" ->
                 /\ \E out \in make_mock_request(profiles, groups, r.endpoint,
                                                 r.method, r.data, r.params) :
                      Engine(s, c, r, out)
                 /\ pc' = [pc EXCEPT ![s] = "page"]
            [] route = "unsupported" ->
                 /\ call' = [call EXCEPT ![s] =
                      [c EXCEPT !.phase = "done",
                                !.result = UnsupportedMethod(r.method),
                                !.modeAfter = USE_MOCK_API]]
                 /\ pc' = [pc EXCEPT ![s] = "page"]
                 /\ UNCHANGED profiles
            [] OTHER ->
                 /\ call' = [call EXCEPT ![s] =
                      [c EXCEPT !.phase = "inflight", !.backend = 1]]
                 /\ pc' = [pc EXCEPT ![s] = "inflight"]
                 /\ UNCHANGED profiles
  /\ lastOp' = [session |-> s, op |-> "begin", arg |-> ""]
  /\ UNCHANGED <<jsonErrorClass, groups, tfSeen, manual>>

Begin(s) == BeginWith(s, CallerRequests)

\* the backend request completes; raise_for_status, response.json() and the
\* except clauses run and the call returns
Finish(s) ==
  /\ pc[s] = "inflight"
  /\ \E outcome \in BackendOutcomes :
     \E doc \in ResponseDocs(outcome) :
       LET handler == ExceptHandler(outcome, jsonErrorClass)
           c == [call[s] EXCEPT !.outcome = outcome, !.handler = handler,
                                !.response = doc]
       IN
       /\ lastOp' = [session |-> s, op |-> "finish", arg |-> outcome]
       /\ USE_MOCK_API' = FlagAfterHandler(handler, USE_MOCK_API)
       /\ manual' = (manual /\ USE_MOCK_API' = USE_MOCK_API)
       /\ tfSeen' = (tfSeen \/ outcome \in {"connection_error", "timeout", "invalid_json"})
       /\ IF handler = "uncaught"
          THEN /\ call' = [call EXCEPT ![s] =
                    [c EXCEPT !.phase = "raised", !.modeAfter = USE_MOCK_API']]
               /\ UNCHANGED profiles
          ELSE IF handler = "none"
          THEN /\ call' = [call EXCEPT ![s] =
                    [c EXCEPT !.phase = "done", !.result = doc,
                              !.modeAfter = USE_MOCK_API']]
               /\ UNCHANGED profiles
          ELSE IF FallsBack(handler, USE_MOCK_API)
          THEN LET r == Forwarded(c.request)
               IN \E out \in make_mock_request(profiles, groups, r.endpoint,
                                               r.method, r.data, r.params) :
                    Engine(s, [c EXCEPT !.advisory = 1], r, out)
          ELSE /\ call' = [call EXCEPT ![s] =
                    [c EXCEPT !.phase = "done", !.result = HandlerError(handler),
                              !.modeAfter = USE_MOCK_API']]
               /\ UNCHANGED profiles
  /\ pc' = [pc EXCEPT ![s] = "page"]
  /\ UNCHANGED <<jsonErrorClass, groups>>

Next ==
  \E s \in Sessions :
    \/ Probe(s)
    \/ Toggle(s)
    \/ EndRun(s)
    \/ Begin(s)
    \/ Finish(s)

Spec == Init /\ [][Next]_vars

TypeOK ==
  /\ USE_MOCK_API \in BOOLEAN
  /\ jsonErrorClass \in JsonErrorClasses
  /\ \A s \in Sessions : pc[s] \in {"off", "start", "sidebar", "page", "inflight"}
  /\ \A s \in Sessions : call[s].phase \in {"none", "inflight", "done", "raised"}
  /\ Len(profiles) >= NumSeedProfiles

(***************************************************************************)
(* Properties of the dispatcher                                             *)
(***************************************************************************)
Done(s) == call[s].phase = "done"

\* the call was answered by the mock API alone, with its own arguments
ServedByEngine(c) ==
  /\ Len(c.engine) = 1
  /\ c.engine[1].request = c.request
  /\ SameDoc(c.result, c.engine[1].result)

\* a step in which session s enters make_api_request
Begins(s) ==
  /\ pc[s] \in {"sidebar", "page"}
  /\ call'[s].phase # "none"
  /\ lastOp' = [session |-> s, op |-> "begin", arg |-> ""]

\* a step in which the backend request of session s completes
Finishes(s) == pc[s] = "inflight" /\ call'[s].phase = "done"

\* C1: once a call has suffered a transport failure (connection error,
\* timeout or undecodable body), every later call, as long as the toggle is
\* not used, is answered by the mock API and never reaches the backend.
C1_Claim ==
  [][\A s \in Sessions :
       (tfSeen /\ Begins(s)) =>
         /\ call'[s].phase = "done"
         /\ call'[s].backend = 0
         /\ ServedByEngine(call'[s])]_vars

\* C2: a LIVE call the backend answers with a non-success status and an
\* error document leaves the flag as it was.
C2_Claim ==
  \A s \in Sessions :
    (Done(s) /\ ~call[s].modeBefore /\ call[s].outcome = "http_error")
      => call[s].modeAfter = call[s].modeBefore

\* C3: a LIVE call the backend answers with an error document returns that
\* document, and the mock API is not asked.
C3_Claim ==
  \A s \in Sessions :
    (Done(s) /\ ~call[s].modeBefore /\ call[s].outcome = "http_error")
      => /\ SameDoc(call[s].result, call[s].response)
         /\ call[s].engine = <<>>

\* C4: in either mode a call with a method other than GET, POST, PUT, DELETE
\* returns the unsupported-method error, reaches neither the backend nor
\* the mock API, and leaves the flag as it was.
C4_Claim ==
  \A s \in Sessions :
    (Done(s) /\ call[s].request.method \notin SupportedMethods)
      => /\ SameDoc(call[s].result, UnsupportedMethod(call[s].request.method))
         /\ call[s].backend = 0
         /\ call[s].engine = <<>>
         /\ call[s].modeAfter = call[s].modeBefore

\* C5: a LIVE call that hits a connection error or a timeout sets the flag,
\* passes the same endpoint, method, body and query to the mock API exactly
\* once and returns the mock API's answer.
C5_FallbackOnTransportFailure ==
  \A s \in Sessions :
    (Done(s) /\ ~call[s].modeBefore
       /\ call[s].outcome \in {"connection_error", "timeout"})
      => /\ call[s].modeAfter
         /\ call[s].advisory = 1
         /\ ServedByEngine(call[s])

C5_Witness ==
  \E s \in Sessions :
    /\ Done(s) /\ ~call[s].modeBefore /\ call[s].outcome = "timeout"
    /\ call[s].request.method = "POST"
    /\ USE_MOCK_API
    /\ Len(call[s].engine) = 1

\* C6: a LIVE call whose response body does not decode as JSON sets the flag
\* and returns the mock API's answer to the same call.
C6_Claim ==
  \A s \in Sessions :
    (Done(s) /\ ~call[s].modeBefore /\ call[s].outcome = "invalid_json")
      => /\ call[s].modeAfter
         /\ ServedByEngine(call[s])

\* C7: a call that starts with the flag set returns the mock API's answer to
\* its own arguments, never reaches the backend and leaves the flag set.
C7_SimulatedServedByEngineOnly ==
  \A s \in Sessions :
    call[s].modeBefore =>
      /\ call[s].phase = "done"
      /\ call[s].backend = 0
      /\ ServedByEngine(call[s])
      /\ call[s].modeAfter

C7_Witness ==
  \E s \in Sessions :
    /\ Done(s) /\ call[s].modeBefore
    /\ call[s].request.method = "GET"
    /\ call[s].result.kind = "list"
    /\ USE_MOCK_API

\* C8: a LIVE call the backend answers with a well-formed success response
\* returns that document; the flag stays unset and the mock API is neither
\* asked nor changed.
C8_LiveSuccessPassesThrough ==
  [][\A s \in Sessions :
       (Finishes(s) /\ ~call'[s].modeBefore /\ call'[s].outcome = "success") =>
         /\ SameDoc(call'[s].result, call'[s].response)
         /\ ~USE_MOCK_API'
         /\ ~call'[s].modeAfter
         /\ call'[s].engine = <<>>
         /\ profiles' = profiles
         /\ groups' = groups]_vars

C8_Witness ==
  \E s \in Sessions :
    /\ Done(s) /\ ~call[s].modeBefore /\ call[s].outcome = "success"
    /\ call[s].result.kind = "dict"
    /\ ~USE_MOCK_API

\* C9: the flag goes from set to unset only by the toggle: no call and no
\* probe unsets it.
C9_OnlyToggleReturnsToLive ==
  [][(USE_MOCK_API /\ ~USE_MOCK_API') => lastOp'.op = "toggle"]_vars

C9_Witness ==
  /\ USE_MOCK_API
  /\ tfSeen
  /\ lastOp.op = "probe" /\ lastOp.arg = "status_200"

\* C10: the toggle can be used in either mode, it gives the flag the
\* opposite value, and no later successful call or probe changes the value
\* the toggle gave.
C10_ToggleAuthoritative ==
  [][/\ lastOp'.op = "toggle" => USE_MOCK_API' = ~USE_MOCK_API
     /\ \A s \in Sessions :
          (pc[s] = "sidebar" /\ lastOp.op = "probe") => ENABLED Toggle(s)
     /\ \A s \in Sessions :
          (manual /\ (Begins(s) \/ Finishes(s)) /\ call'[s].phase = "done"
             /\ call'[s].outcome \in {"none", "success"})
            => (manual' /\ USE_MOCK_API' = USE_MOCK_API)
     /\ (manual /\ lastOp'.op = "probe" /\ lastOp'.arg = "status_200")
            => (manual' /\ USE_MOCK_API' = USE_MOCK_API)]_vars

C10_Witness ==
  \E s \in Sessions :
    /\ manual /\ ~USE_MOCK_API
    /\ Done(s) /\ call[s].outcome = "success"

IsDocument(d) == d.kind \in {"dict", "list"}

\* C17: whatever the mode, the request and the outcome of the backend and of
\* the mock API, a call of make_api_request that has come back has returned
\* a document, and no call ends with an exception leaving the function
C17_AlwaysReturnsDocument ==
  \A s \in Sessions :
    /\ call[s].phase # "raised"
    /\ Done(s) => IsDocument(call[s].result)
    /\ pc[s] # "inflight" => call[s].phase # "inflight"

\* the import page: POST /profiles/ with the content of the uploaded file
ImportRequests ==
  {[endpoint |-> <<"", "profiles", "">>, method |-> "POST", data |-> d,
    params |-> NoParams] : d \in {FullData, ListData}}

ImportBegin(s) == BeginWith(s, ImportRequests)

ImportNext ==
  \E s \in Sessions :
    \/ Probe(s)
    \/ Toggle(s)
    \/ EndRun(s)
    \/ ImportBegin(s)
    \/ Finish(s)

ImportSpec == Init /\ [][ImportNext]_vars

\* an exception that is neither a RequestException nor a decode error came
\* out of the try block and the caller got an error document
C17_Witness ==
  \E s \in Sessions :
    /\ Done(s) /\ call[s].outcome = "other_exception"
    /\ call[s].handler = "Exception"
    /\ IsDocument(call[s].result) /\ "error" \in DOMAIN call[s].result.val

\* C24: GET /health is probed only as the first step of the process; after
\* it no probe is issued, and the flag changes only when a call's handler
\* or the toggle button writes it.
C24_Claim ==
  [][lastOp.op # "init" =>
       /\ lastOp'.op # "probe"
       /\ USE_MOCK_API' # USE_MOCK_API => lastOp'.op \in {"finish", "toggle"}]_vars

TransportFailures == {"connection_error", "timeout", "invalid_json"}

\* C26: a call surfaces the advisory exactly when it is the call whose
\* transport failure takes the flag from LIVE to SIMULATED; as only the
\* toggle takes the flag back, no other call between two toggles does.
C26_Claim ==
  [][\A s \in Sessions :
       ((Begins(s) \/ Finishes(s)) /\ call'[s].phase = "done") =>
         (call'[s].advisory = 1 <=>
            /\ call'[s].outcome \in TransportFailures
            /\ ~USE_MOCK_API /\ USE_MOCK_API')]_vars

\* C30: a call sent to the backend that ends in the generic handler returns
\* the "unexpected error" document, the mock API is not called, no advisory
\* is given and the flag stays LIVE; the next call of the script run is sent
\* to the backend again.
C30_GenericHandlerStaysLive ==
  [][\A s \in Sessions :
       /\ (Finishes(s) /\ call'[s].handler = "Exception") =>
            /\ SameDoc(call'[s].result, HandlerError("Exception"))
            /\ "error" \in DOMAIN call'[s].result.val
            /\ call'[s].engine = <<>>
            /\ call'[s].advisory = 0
            /\ ~USE_MOCK_API /\ ~USE_MOCK_API'
       /\ (Begins(s) /\ Done(s) /\ call[s].handler = "Exception"
             /\ call'[s].request.method \in SupportedMethods) =>
            /\ call'[s].phase = "inflight"
            /\ call'[s].backend = 1]_vars

\* a body that is not JSON raised a decode error that is neither a
\* RequestException nor json.JSONDecodeError: the generic handler answered
\* and the flag is still LIVE
C30_Witness ==
  \E s \in Sessions :
    /\ lastOp = [session |-> s, op |-> "finish", arg |-> "invalid_json"]
    /\ Done(s) /\ call[s].handler = "Exception"
    /\ SameDoc(call[s].result, HandlerError("Exception"))
    /\ call[s].engine = <<>>
    /\ ~call[s].modeBefore /\ ~USE_MOCK_API

(***************************************************************************)
(* Several sessions: every browser session runs main() in a thread of its   *)
(* own, and all of them share the module-level flag and the mock API        *)
(***************************************************************************)
\* the calls of the pages of the concurrent sessions: list the profiles,
\* create a profile
ConcRequests ==
  {r \in CallerRequests :
     /\ r.method \in {"GET", "POST"}
     /\ r.endpoint = <<"", "profiles", "">>
     /\ r.data \in {NoData, FullData}}

ConcInit ==
  /\ USE_MOCK_API \in BOOLEAN
  /\ jsonErrorClass \in JsonErrorClasses
  /\ profiles = SeedProfiles
  /\ \E draws \in DispatcherDraws : groups = SeedGroups(draws)
  /\ pc = [s \in Sessions |-> "start"]
  /\ call = [s \in Sessions |-> NoCall]
  /\ tfSeen = FALSE
  /\ manual = FALSE
  /\ lastOp = [session |-> "s1", op |-> "init", arg |-> ""]

ConcBegin(s) == BeginWith(s, ConcRequests)

ConcNext ==
  \E s \in Sessions :
    \/ Probe(s)
    \/ Toggle(s)
    \/ EndRun(s)
    \/ ConcBegin(s)
    \/ Finish(s)

ConcSpec == ConcInit /\ [][ConcNext]_vars

\* C18: with several sessions sharing the flag, every call that enters
\* make_api_request while the flag is SIMULATED, in particular after another
\* session's failed call has set it, is answered by the mock API in that
\* step and sends nothing to the backend
C18_LaterCallsSeeSimulated ==
  [][\A s \in Sessions :
       (USE_MOCK_API /\ Begins(s)) =>
         /\ call'[s].phase = "done"
         /\ call'[s].modeBefore
         /\ call'[s].backend = 0
         /\ ServedByEngine(call'[s])]_vars

\* one session's call hit a connection error or a timeout and set the flag;
\* the other session's call, entered afterwards, was served by the mock API
C18_Witness ==
  \E s, t \in Sessions :
    /\ s # t
    /\ call[t].phase = "done" /\ call[t].advisory = 1 /\ ~call[t].modeBefore
    /\ call[t].outcome \in {"connection_error", "timeout"}
    /\ lastOp = [session |-> s, op |-> "begin", arg |-> ""]
    /\ Done(s) /\ call[s].modeBefore /\ call[s].backend = 0
    /\ ServedByEngine(call[s])

\* C25: with several sessions, every call sent to the backend that meets a
\* connection error or a timeout returns the mock API's answer to its own
\* request, never the error document made from the exception, whatever the
\* other sessions have done to the flag in the meantime.
C25_Claim ==
  [][\A s \in Sessions :
       (Finishes(s) /\ call'[s].outcome \in {"connection_error", "timeout"}) =>
         /\ ServedByEngine(call'[s])
         /\ ~SameDoc(call'[s].result, HandlerError("RequestException"))]_vars

(***************************************************************************)
(* The mock API on its own: make_mock_request called directly, any number   *)
(* of times, on the store the constructor builds                            *)
(***************************************************************************)
\* profiles that may be created in a run of the mock API on its own
MaxEngineCreated == 2

EngineEndpoints ==
  Endpoints \cup
  {<<"", "profiles", "profile_0000000b">>,
   <<"", "profiles", "profile_9">>,
   <<"", "matching", "profile", "profile_1", "groups">>}

EngineDataFor(endpoint, method) ==
  IF method = "POST" /\ endpoint = <<"", "profiles", "">>
    THEN {NoData, EmptyData, NameOnlyData, FullData}
  ELSE IF method = "PUT" THEN {FullData}
  ELSE {NoData}

EngineRequests ==
  {r \in {[endpoint |-> e, method |-> m, data |-> d, params |-> p] :
            e \in EngineEndpoints, m \in Methods,
            d \in {NoData, EmptyData, NameOnlyData, FullData},
            p \in {NoParams, LimitParams(2)}} :
     /\ r.data \in EngineDataFor(r.endpoint, r.method)
     /\ r.params \in ParamsFor(r.endpoint, r.method)}

EngineInit ==
  /\ USE_MOCK_API = TRUE
  /\ jsonErrorClass = "requests.exceptions.JSONDecodeError"
  /\ profiles = SeedProfiles
  /\ \E draws \in DispatcherDraws : groups = SeedGroups(draws)
  /\ pc = [s \in Sessions |-> "off"]
  /\ call = [s \in Sessions |-> NoCall]
  /\ tfSeen = FALSE
  /\ manual = FALSE
  /\ lastOp = [session |-> "s1", op |-> "init", arg |-> ""]

EngineCreateAllowed(r) ==
  (r.endpoint = <<"", "profiles", "">> /\ r.method = "POST")
    => Len(profiles) < NumSeedProfiles + MaxEngineCreated

EngineCall ==
  /\ pc["s1"] = "off"
  /\ UNCHANGED <<USE_MOCK_API, jsonErrorClass, groups, pc, tfSeen, manual>>
  /\ \E r \in EngineRequests :
       /\ EngineCreateAllowed(r)
       /\ \E out \in make_mock_request(profiles, groups, r.endpoint, r.method,
                                       r.data, r.params) :
            Engine("s1", [NoCall EXCEPT !.request = r, !.modeBefore = TRUE], r, out)
  /\ lastOp' = [session |-> "s1", op |-> "route", arg |-> ""]

EngineNext == EngineCall

EngineSpec == EngineInit /\ [][EngineNext]_vars

(***************************************************************************)
(* Properties of the mock API                                               *)
(***************************************************************************)
ProfilesCollection == <<"", "profiles", "">>

\* the request is GET /profiles/{id}
IsProfileById(r) ==
  /\ r.method = "GET"
  /\ Len(r.endpoint) = 3
  /\ r.endpoint[1] = "" /\ r.endpoint[2] = "profiles" /\ r.endpoint[3] # ""

StoredIds(store) == {store[i].id : i \in 1..Len(store)}

NotFoundDoc == Dict([error |-> "Profile not found"])

\* a step in which the mock API answers one request
Routes == lastOp'.op = "route" /\ call'["s1"].phase = "done"

\* the Profile a create with this body is to store under this id
ExpectedProfile(pid, data) ==
  LET given(k) == ~data.isNone /\ k \in data.has
  IN [id |-> pid,
      name |-> IF given("name") THEN data.v.name ELSE "User " \o pid,
      description |-> IF given("description") THEN data.v.description
                      ELSE "No description provided.",
      preferences |-> IF given("preferences") THEN data.v.preferences ELSE {},
      tags |-> IF given("tags") THEN data.v.tags ELSE <<>>]

\* C14: POST /profiles/ with a body, then GET /profiles/{returned id},
\* returns the Profile with the returned id and the body's name,
\* description, preferences and tags, defaults standing in for omitted ones.
C14_Claim ==
  [][LET c == call["s1"]
         d == call'["s1"]
     IN (/\ Routes
         /\ c.phase = "done"
         /\ c.request.method = "POST" /\ c.request.endpoint = ProfilesCollection
         /\ d.request.method = "GET"
         /\ d.request.endpoint = <<"", "profiles", c.result.val.profile_id>>)
        => /\ d.result.kind = "dict"
           /\ d.result.val = ExpectedProfile(c.result.val.profile_id, c.request.data)]_vars

\* C15: DELETE /profiles/{id} for a stored id, then GET /profiles/{id},
\* returns the not-found error document.
C15_Claim ==
  [][LET c == call["s1"]
         d == call'["s1"]
     IN (/\ Routes
         /\ c.phase = "done"
         /\ c.request.method = "DELETE"
         /\ IsProfileById([c.request EXCEPT !.method = "GET"])
         /\ c.request.endpoint[3] \in StoredIds(profiles)
         /\ IsProfileById(d.request)
         /\ d.request.endpoint = c.request.endpoint)
        => SameDoc(d.result, NotFoundDoc)]_vars

\* C16: no two stored profiles have the same id, and a create returns an id
\* that no stored profile had.
C16_Claim ==
  /\ \A i, j \in 1..Len(profiles) : i # j => profiles[i].id # profiles[j].id
  /\ \A s \in Sessions :
       (Done(s) /\ call[s].request.method = "POST"
          /\ call[s].request.endpoint = ProfilesCollection
          /\ Len(call[s].engine) = 1)
         => call[s].result.val.profile_id
              \notin StoredIds(SubSeq(profiles, 1, Len(profiles) - 1))

\* C19: GET /profiles/{id} returns the stored Profile with that id when
\* there is one and the not-found error document otherwise, and leaves the
\* store as it was.
C19_GetProfileByIdOrNotFound ==
  [][LET d == call'["s1"]
         id == d.request.endpoint[3]
     IN (Routes /\ IsProfileById(d.request))
        => /\ profiles' = profiles
           /\ groups' = groups
           /\ IF id \in StoredIds(profiles)
              THEN /\ d.result.kind = "dict"
                   /\ DOMAIN d.result.val = {"id", "name", "description",
                                             "preferences", "tags"}
                   /\ d.result.val.id = id
                   /\ \E i \in 1..Len(profiles) : profiles[i] = d.result.val
              ELSE /\ d.result.kind = "dict"
                   /\ DOMAIN d.result.val = {"error"}
                   /\ SameDoc(d.result, NotFoundDoc)]_vars

C19_Witness ==
  /\ lastOp.op = "route"
  /\ IsProfileById(call["s1"].request)
  /\ call["s1"].request.endpoint[3] = "profile_0000000a"
  /\ call["s1"].result.kind = "dict"
  /\ "id" \in DOMAIN call["s1"].result.val
  /\ Len(profiles) > NumSeedProfiles

C19_WitnessNotFound ==
  /\ lastOp.op = "route"
  /\ IsProfileById(call["s1"].request)
  /\ SameDoc(call["s1"].result, NotFoundDoc)

\* the routes the mock API recognises
Recognised(r) ==
  \/ r.endpoint = <<"", "health">> /\ r.method = "GET"
  \/ r.endpoint = <<"", "encryption", "generate-key-pair">> /\ r.method = "POST"
  \/ r.endpoint = ProfilesCollection /\ r.method \in {"GET", "POST"}
  \/ IsProfileById(r)
  \/ r.endpoint = <<"", "groups", "">> /\ r.method = "GET"
  \/ /\ r.method = "GET"
     /\ Len(r.endpoint) = 5
     /\ r.endpoint[2] = "matching" /\ r.endpoint[3] = "profile"
     /\ r.endpoint[5] = "matches"

\* C20: a request that matches no recognised route returns the error
\* document naming its endpoint and its method, and leaves the store as it
\* was.
C20_UnroutedIsNotImplemented ==
  [][LET d == call'["s1"]
     IN (Routes /\ ~Recognised(d.request))
        => /\ profiles' = profiles
           /\ groups' = groups
           /\ d.result.kind = "dict"
           /\ DOMAIN d.result.val = {"error"}
           /\ d.result.val.error =
                "Endpoint " \o Join(d.request.endpoint) \o " with method "
                \o d.request.method \o " not implemented in mock API"]_vars

C20_Witness ==
  /\ lastOp.op = "route"
  /\ call["s1"].request.method = "DELETE"
  /\ call["s1"].request.endpoint = <<"", "profiles", "profile_1">>
  /\ call["s1"].result.kind = "dict"
  /\ DOMAIN call["s1"].result.val = {"error"}
  /\ Len(profiles) > NumSeedProfiles

\* the request is POST /profiles/
IsCreate(r) == r.method = "POST" /\ r.endpoint = ProfilesCollection

\* C21: GET /profiles/ returns the whole store in its order; the store
\* begins with the seed profiles, a create puts its profile at the end under
\* the id it returns, and no step removes or moves a stored profile, so the
\* created profiles follow the seeds in order of creation and stay listed.
C21_ListingInInsertionOrder ==
  [][LET d == call'["s1"]
     IN Routes =>
          /\ Len(profiles') >= Len(profiles)
          /\ SubSeq(profiles', 1, Len(profiles)) = profiles
          /\ SubSeq(profiles', 1, NumSeedProfiles) = SeedProfiles
          /\ IsCreate(d.request) =>
               /\ Len(profiles') = Len(profiles) + 1
               /\ profiles'[Len(profiles')].id = d.result.val.profile_id
          /\ (d.request.method = "GET" /\ d.request.endpoint = ProfilesCollection) =>
               /\ d.result.kind = "list"
               /\ d.result.val = profiles]_vars

\* two profiles were created, "..b" before "..a", and the listing has the
\* seeds, then "..b", then "..a"
C21_Witness ==
  /\ lastOp.op = "route"
  /\ call["s1"].request.method = "GET"
  /\ call["s1"].request.endpoint = ProfilesCollection
  /\ call["s1"].result.kind = "list"
  /\ Len(call["s1"].result.val) = NumSeedProfiles + 2
  /\ SubSeq(call["s1"].result.val, 1, NumSeedProfiles) = SeedProfiles
  /\ call["s1"].result.val[NumSeedProfiles + 1].id = "profile_0000000b"
  /\ call["s1"].result.val[NumSeedProfiles + 2].id = "profile_0000000a"

GroupsCollection == <<"", "groups", "">>

\* C22: every document in the answer to GET /groups/ has exactly the
\* fields id, name, description, tags and members.
C22_Claim ==
  (/\ lastOp.op = "route"
   /\ call["s1"].request.method = "GET"
   /\ call["s1"].request.endpoint = GroupsCollection)
    => /\ call["s1"].result.kind = "list"
       /\ \A i \in 1..Len(call["s1"].result.val) :
            DOMAIN call["s1"].result.val[i] =
              {"id", "name", "description", "tags", "members"}

\* C28: a step of the mock API other than POST /profiles/ leaves the
\* profile list and the group list as they were; POST /profiles/ adds one
\* profile at the end and changes nothing else; the groups are the seed
\* groups throughout.
C28_OnlyCreateChangesState ==
  [][LET d == call'["s1"]
     IN Routes =>
          /\ groups' = groups
          /\ \E draws \in DispatcherDraws : groups' = SeedGroups(draws)
          /\ IF IsCreate(d.request)
             THEN /\ Len(profiles') = Len(profiles) + 1
                  /\ SubSeq(profiles', 1, Len(profiles)) = profiles
             ELSE profiles' = profiles]_vars

\* profiles have been created, and a DELETE and a PUT on a profile and a
\* match query have been answered with the store unchanged
C28_Witness ==
  /\ lastOp.op = "route"
  /\ Len(profiles) = NumSeedProfiles + 1
  /\ call["s1"].request.method \in {"PUT", "DELETE"}
  /\ call["s1"].request.endpoint = <<"", "profiles", "profile_1">>
  /\ \E i \in 1..Len(profiles) : profiles[i] = SeedProfile(1)

(***************************************************************************)
(* The mock API with the member samples the constructor can draw            *)
(***************************************************************************)
\* the three samples are drawn independently and no operation tells the
\* groups apart: the first group takes every sample, the other two take two
\* samples each
GroupDraws ==
  {<<a, b, c>> : a \in MemberSamples,
                 b \in {<<"profile_5">>, <<"profile_2", "profile_4">>},
                 c \in {<<"profile_3">>, <<"profile_5", "profile_3", "profile_1">>}}

GroupRequests ==
  {r \in EngineRequests :
     \/ r.method = "GET" /\ r.endpoint \in {GroupsCollection, <<"", "groups", "group_1">>}
     \/ IsCreate(r) /\ r.data = EmptyData
     \/ r.method \in {"PUT", "DELETE"} /\ r.endpoint = <<"", "profiles", "profile_1">>}

GroupInit ==
  /\ USE_MOCK_API = TRUE
  /\ jsonErrorClass = "requests.exceptions.JSONDecodeError"
  /\ profiles = SeedProfiles
  /\ \E draws \in GroupDraws : groups = SeedGroups(draws)
  /\ pc = [s \in Sessions |-> "off"]
  /\ call = [s \in Sessions |-> NoCall]
  /\ tfSeen = FALSE
  /\ manual = FALSE
  /\ lastOp = [session |-> "s1", op |-> "init", arg |-> ""]

GroupCall ==
  /\ pc["s1"] = "off"
  /\ UNCHANGED <<USE_MOCK_API, jsonErrorClass, groups, pc, tfSeen, manual>>
  /\ \E r \in GroupRequests :
       /\ EngineCreateAllowed(r)
       /\ \E out \in make_mock_request(profiles, groups, r.endpoint, r.method,
                                       r.data, r.params) :
            Engine("s1", [NoCall EXCEPT !.request = r, !.modeBefore = TRUE], r, out)
  /\ lastOp' = [session |-> "s1", op |-> "route", arg |-> ""]

GroupNext == GroupCall

GroupSpec == GroupInit /\ [][GroupNext]_vars

\* C29: in every state of the mock API every member id of every group is
\* the id of a stored profile, and every group has 1 to 3 members, all
\* different.
C29_MembersAreStoredProfiles ==
  \A g \in 1..Len(groups) :
    LET members == groups[g].members
    IN /\ Len(members) >= 1 /\ Len(members) <= 3
       /\ \A i \in 1..Len(members) : members[i] \in StoredIds(profiles)
       /\ \A i, j \in 1..Len(members) : i # j => members[i] # members[j]

\* profiles were created and a DELETE of a group member was answered; the
\* group still has its three members
C29_Witness ==
  /\ lastOp.op = "route"
  /\ Len(profiles) = NumSeedProfiles + 2
  /\ call["s1"].request.method = "DELETE"
  /\ call["s1"].request.endpoint = <<"", "profiles", "profile_1">>
  /\ groups[1].members = <<"profile_4", "profile_1", "profile_2">>

(***************************************************************************)
(* The match query on its own: one GET .../matches on a store that holds    *)
(* the seed profiles and some created ones                                  *)
(***************************************************************************)
\* created profiles the store may hold when the match query is made
MaxExtra == 6

ExtraId(k) == "profile_0000000" \o ToString(k)

\* the store after n calls of POST /profiles/ with an empty body
StoreWithExtra(n) ==
  SeedProfiles \o [k \in 1..n |-> NewProfile(ExtraId(k), EmptyData)]

EmptyParams == [isNone |-> FALSE, has |-> {}, v |-> [limit |-> 0]]

MatchesOf(id) == <<"", "matching", "profile", id, "matches">>

MatchRequests ==
  {[endpoint |-> MatchesOf(id), method |-> "GET", data |-> NoData, params |-> p] :
     id \in {"profile_1", ExtraId(1)},
     p \in {NoParams, EmptyParams, LimitParams(0), LimitParams(2), LimitParams(50)}}

MatchInit ==
  /\ USE_MOCK_API = TRUE
  /\ jsonErrorClass = "requests.exceptions.JSONDecodeError"
  /\ \E n \in 0..MaxExtra : profiles = StoreWithExtra(n)
  /\ \E draws \in DispatcherDraws : groups = SeedGroups(draws)
  /\ pc = [s \in Sessions |-> "off"]
  /\ call = [s \in Sessions |-> NoCall]
  /\ tfSeen = FALSE
  /\ manual = FALSE
  /\ lastOp = [session |-> "s1", op |-> "init", arg |-> ""]

MatchCall ==
  /\ lastOp.op = "init"
  /\ pc["s1"] = "off"
  /\ UNCHANGED <<USE_MOCK_API, jsonErrorClass, groups, pc, tfSeen, manual>>
  /\ \E r \in MatchRequests :
       \E out \in make_mock_request(profiles, groups, r.endpoint, r.method,
                                    r.data, r.params) :
         Engine("s1", [NoCall EXCEPT !.request = r, !.modeBefore = TRUE], r, out)
  /\ lastOp' = [session |-> "s1", op |-> "match", arg |-> ""]

MatchNext == MatchCall

MatchSpec == MatchInit /\ [][MatchNext]_vars

\* the match query has been answered for a profile that is in the store
Matched ==
  /\ lastOp.op = "match"
  /\ call["s1"].request.endpoint[4] \in StoredIds(profiles)

MatchResult == call["s1"].result.val

LimitGiven(params) == ~params.isNone /\ "limit" \in params.has

\* C11: the result of GET /matching/profile/{id}/matches has no entry whose
\* profile is the requesting profile {id}.
C11_Claim ==
  Matched =>
    \A i \in 1..Len(MatchResult) :
      MatchResult[i].profile.id # call["s1"].request.endpoint[4]

\* C12: the match query returns at most query.limit results, and at most 10
\* when the query has no limit.
C12_AtMostLimitResults ==
  Matched =>
    /\ call["s1"].result.kind = "list"
    /\ Len(MatchResult) <=
         (IF LimitGiven(call["s1"].request.params)
          THEN call["s1"].request.params.v.limit
          ELSE 10)

C12_Witness ==
  /\ Matched
  /\ ~LimitGiven(call["s1"].request.params)
  /\ Len(profiles) > 10
  /\ Len(MatchResult) = 10

C12_WitnessLimit ==
  /\ Matched
  /\ call["s1"].request.params = LimitParams(2)
  /\ Len(MatchResult) = 2

\* C13: the result of the match query is in descending order of score:
\* each entry's score is at least the next entry's.
C13_SortedByScoreDescending ==
  Matched =>
    \A i \in 1..(Len(MatchResult) - 1) :
      MatchResult[i].score >= MatchResult[i + 1].score

C13_Witness ==
  /\ Matched
  /\ Len(MatchResult) >= 4
  /\ MatchResult[1].score > MatchResult[Len(MatchResult)].score
  /\ MatchResult[1].profile.id # "profile_1"

\* C23: every score in a match result lies in [0.5, 1.0] (50..100 in
\* hundredths), hence in [0.0, 1.0].
C23_ScoresInRange ==
  lastOp.op = "match" =>
    /\ call["s1"].result.kind = "list"
    /\ \A i \in 1..Len(MatchResult) :
         /\ MatchResult[i].score >= 50 /\ MatchResult[i].score <= 100
         /\ MatchResult[i].score >= 0

\* a result that has both ends of the range
C23_Witness ==
  /\ lastOp.op = "match"
  /\ \E i, j \in 1..Len(MatchResult) :
       MatchResult[i].score = 100 /\ MatchResult[j].score = 50

\* place of a profile in the store, the order the candidates are taken in
PoolPlace(id) == CHOOSE k \in 1..Len(profiles) : profiles[k].id = id

\* C27: entries of a match result with equal scores are in the order their
\* profiles have in the store.
C27_TiesInInsertionOrder ==
  lastOp.op = "match" =>
    \A i, j \in 1..Len(MatchResult) :
      (i < j /\ MatchResult[i].score = MatchResult[j].score)
        => PoolPlace(MatchResult[i].profile.id) < PoolPlace(MatchResult[j].profile.id)

\* a result with a tie at each score, where the sort moved a later
\* candidate in front of an earlier one
C27_Witness ==
  /\ lastOp.op = "match"
  /\ \E i, j \in 1..Len(MatchResult) :
       i < j /\ MatchResult[i].score = 100 /\ MatchResult[j].score = 100
  /\ \E i, j \in 1..Len(MatchResult) :
       i < j /\ MatchResult[i].score = 50 /\ MatchResult[j].score = 50
  /\ \E i, j \in 1..Len(MatchResult) :
       /\ i < j
       /\ PoolPlace(MatchResult[i].profile.id) > PoolPlace(MatchResult[j].profile.id)

====
